---------------------------- MODULE Spec2Model ----------------------------
(***************************************************************************)
(* MIDI hub with beat-clock metronome (src/MidiHub.c, firmware rev H6).    *)
(*                                                                         *)
(* The firmware is one interrupt handler (timer 0: millisecond clock,      *)
(* timer 1: tempo tick, serial receive: queue push) and one main loop      *)
(* (midiThru, then the mode-dependent tick/menu/fade step, then the button *)
(* debouncer and command switch).  The variables below are the globals of  *)
(* the file, the locals of main(), the hardware the code reads and writes  *)
(* (button port, EEPROM, serial transmitter) and the position of the main  *)
(* loop.  Values keep the width of their C type on the PIC16F1825          *)
(* (byte = 8 bits, int = 16 bits, unsigned long = 32 bits).                *)
(*                                                                         *)
(* Not modelled: the LED duty buffer, the PWM counter and menuLoopCount.   *)
(* They are written by the loop and read only to drive the LED pins; no    *)
(* other variable of the program depends on them.                          *)
(***************************************************************************)
EXTENDS Integers, Sequences, FiniteSets, TLC

---------------------------------------------------------------------------
(* Program constants (the #defines and enums of the source).               *)

M_BUTTON_RUN == 1
M_BUTTON_INC == 2
M_BUTTON_DEC == 4
M_LONG_PRESS == 64
M_AUTO_REPEAT == 128

MIDI_SYNCH_TICK == 248
MIDI_SYNCH_START == 250
MIDI_SYNCH_CONTINUE == 251
MIDI_SYNCH_STOP == 252

AUTO_REPEAT_INTERVAL == 80
AUTO_REPEAT_DELAY == 500
DEBOUNCE_PERIOD == 100
FADE_PERIOD == 30

BPM_MIN == 30
BPM_MAX == 300
BPM_DEFAULT == 120

EEPROM_ADDR_MAGIC_COOKIE == 9
EEPROM_ADDR_OPTIONS == 10
EEPROM_MAGIC_COOKIE == 165

MENU_SIZE == 6
SZ_RXBUFFER == 20
NUM_BRIGHTNESS_LEVELS == 6

OPTION_PASSREALTIMEMSG == 1
OPTION_PASSOTHERMSG == 2
OPTION_STARTSTOP == 4
OPTION_THRUANIMATE == 8
OPTION_DISCREET == 16
OPTIONS_DEFAULT == OPTION_PASSOTHERMSG + OPTION_STARTSTOP + OPTION_THRUANIMATE

MODE_STEP == 0
MODE_TAP == 1
MODE_NOCLOCK == 2
MODE_MENU == 3

TIMER_COUNTS_PER_SECOND == 500000
TAP_TIMEOUT == 1000
TAP_MAX == 6
TICK_WRAP == 23
MS_PER_MINUTE == 60000
REALTIME_MASK == 248
UINT_MAX == 65535

\* brightnessLevels[0..5] as set up at the top of main()
brightnessLevels == <<50, 20, 10, 5, 2, 1>>

---------------------------------------------------------------------------
(* Machine arithmetic.                                                     *)

Byte == 0..255
TwoTo8 == 256
TwoTo16 == 65536

\* An unsigned long (32 bits) is kept as <<high word, low word>>, two 16-bit
\* halves, since the checker's integers are 32-bit signed themselves.
\* N32(n) is the unsigned long of value n (0 <= n < 2^31).
N32(n) == <<n \div TwoTo16, n % TwoTo16>>
\* the value of an unsigned long whose high word is below 2^15
Nat32(a) == a[1] * TwoTo16 + a[2]
\* a + b and a - b, wrapping at 32 bits
Add32(a, b) ==
    LET lo == a[2] + b[2]
        hi == a[1] + b[1] + (lo \div TwoTo16)
    IN  <<hi % TwoTo16, lo % TwoTo16>>
Sub32(a, b) ==
    LET lo == a[2] - b[2]
        hi == a[1] - b[1] - (IF lo < 0 THEN 1 ELSE 0)
    IN  <<hi % TwoTo16, lo % TwoTo16>>
\* unsigned comparisons a > b, a >= b
Gt32(a, b) == a[1] > b[1] \/ (a[1] = b[1] /\ a[2] > b[2])
Ge32(a, b) == a[1] > b[1] \/ (a[1] = b[1] /\ a[2] >= b[2])
\* a / d for 0 < d < 2^15
Div32(a, d) ==
    LET r == a[1] % d
    IN  <<a[1] \div d, (r * TwoTo16 + a[2]) \div d>>
\* unsigned int (timer_init_scalar) keeps the low 16 bits
U16(x) == x % TwoTo16
\* byte keeps the low 8 bits
U8(x) == x % TwoTo8
\* conversion of a value to the 16-bit signed int of setBPM's parameter
ToInt(x) == LET m == x % TwoTo16 IN IF m >= 32768 THEN m - TwoTo16 ELSE m

Bit(x, i) == (x \div (2 ^ i)) % 2
\* x & y, x | y, x ^ y on bytes
BitAnd(x, y) ==
    LET b(i) == IF Bit(x, i) = 1 /\ Bit(y, i) = 1 THEN 2 ^ i ELSE 0
    IN  b(0) + b(1) + b(2) + b(3) + b(4) + b(5) + b(6) + b(7)
BitOr(x, y) ==
    LET b(i) == IF Bit(x, i) = 1 \/ Bit(y, i) = 1 THEN 2 ^ i ELSE 0
    IN  b(0) + b(1) + b(2) + b(3) + b(4) + b(5) + b(6) + b(7)
BitXor(x, y) ==
    LET b(i) == IF Bit(x, i) # Bit(y, i) THEN 2 ^ i ELSE 0
    IN  b(0) + b(1) + b(2) + b(3) + b(4) + b(5) + b(6) + b(7)

---------------------------------------------------------------------------
(* State.                                                                  *)

VARIABLES
    \* globals written by the interrupt handler
    tick_flag, systemTicks, rxBuffer, rxHead, rxTail,
    \* globals owned by the main loop
    timer_init_scalar, _options, _mode, _brightness, _bpm,
    \* locals of main()
    running, tickCount, lastButtonStatus, autoRepeatBegin, nextAutoRepeat,
    nextFade, debouncePeriodEnd, lastTapSystemTicks, firstTapSystemTicks,
    tapCount, menuOption, runLock, midiRestart, maxDuty,
    \* local q of midiThru(): the byte just read out of the buffer
    q,
    \* hardware: EEPROM bytes, pressed-button mask on the port pins, and the
    \* bytes written to txreg by the main-loop step that was taken last
    eeprom, port, tx,
    \* position of the main loop: "thru" (top of midiThru's for loop),
    \* "wrap" (rxTail incremented, not yet wrapped), "mode" (line 467),
    \* "input" (line 587)
    pc,
    \* the value the command switch was entered with in the last poll of
    \* the buttons (0: no event was emitted in that poll)
    event,
    \* environment bookkeeping: bytes that arrived at the receiver so far and
    \* the stream they are taken from; bytes accepted by the interrupt and not
    \* yet popped, in arrival order; bytes dropped on a full queue; button
    \* changes, power cycles and tempo ticks so far; milliseconds since the
    \* buttons were last changed or the power was applied
    rxCount, rxStream, rxPending, rxDropped, nChanges, nBoots, nTicks, elapsed,
    \* the read of systemTicks the main loop is in the middle of, where the
    \* bytes of the unsigned long are read one by one: the value the counter
    \* had when the read began and the bytes read so far (index 0: lowest)
    clockRead,
    \* the number of long-press events the polls have emitted since the last
    \* press event (counted up to MaxLongPresses)
    longPresses,
    \* the last of the bytes START, CONTINUE and STOP that the commands of
    \* the main loop have sent since power-up (0: none yet)
    lastTransport

progVars == <<tick_flag, systemTicks, rxBuffer, rxHead, rxTail,
              timer_init_scalar, _options, _mode, _brightness, _bpm,
              running, tickCount, lastButtonStatus, autoRepeatBegin,
              nextAutoRepeat, nextFade, debouncePeriodEnd, lastTapSystemTicks,
              firstTapSystemTicks, tapCount, menuOption, runLock, midiRestart,
              maxDuty, q, eeprom, tx, event>>
envVars == <<port, pc, rxCount, rxStream, rxPending, rxDropped, nChanges,
             nBoots, nTicks, elapsed, clockRead, longPresses,
             lastTransport>>
vars == <<progVars, envVars>>

\* The program state as one record, so that the functions of the source can
\* be written as operators from state to state.
Cur ==
    [tick_flag |-> tick_flag, systemTicks |-> systemTicks,
     rxBuffer |-> rxBuffer, rxHead |-> rxHead, rxTail |-> rxTail,
     timer_init_scalar |-> timer_init_scalar, _options |-> _options,
     _mode |-> _mode, _brightness |-> _brightness, _bpm |-> _bpm,
     running |-> running, tickCount |-> tickCount,
     lastButtonStatus |-> lastButtonStatus,
     autoRepeatBegin |-> autoRepeatBegin, nextAutoRepeat |-> nextAutoRepeat,
     nextFade |-> nextFade, debouncePeriodEnd |-> debouncePeriodEnd,
     lastTapSystemTicks |-> lastTapSystemTicks,
     firstTapSystemTicks |-> firstTapSystemTicks, tapCount |-> tapCount,
     menuOption |-> menuOption, runLock |-> runLock,
     midiRestart |-> midiRestart, maxDuty |-> maxDuty, q |-> q,
     eeprom |-> eeprom, tx |-> <<>>, event |-> event]

Commit(s) ==
    /\ tick_flag' = s.tick_flag
    /\ systemTicks' = s.systemTicks
    /\ rxBuffer' = s.rxBuffer
    /\ rxHead' = s.rxHead
    /\ rxTail' = s.rxTail
    /\ timer_init_scalar' = s.timer_init_scalar
    /\ _options' = s._options
    /\ _mode' = s._mode
    /\ _brightness' = s._brightness
    /\ _bpm' = s._bpm
    /\ running' = s.running
    /\ tickCount' = s.tickCount
    /\ lastButtonStatus' = s.lastButtonStatus
    /\ autoRepeatBegin' = s.autoRepeatBegin
    /\ nextAutoRepeat' = s.nextAutoRepeat
    /\ nextFade' = s.nextFade
    /\ debouncePeriodEnd' = s.debouncePeriodEnd
    /\ lastTapSystemTicks' = s.lastTapSystemTicks
    /\ firstTapSystemTicks' = s.firstTapSystemTicks
    /\ tapCount' = s.tapCount
    /\ menuOption' = s.menuOption
    /\ runLock' = s.runLock
    /\ midiRestart' = s.midiRestart
    /\ maxDuty' = s.maxDuty
    /\ q' = s.q
    /\ eeprom' = s.eeprom
    /\ tx' = s.tx
    /\ event' = s.event

---------------------------------------------------------------------------
(* Functions of the source, as operators on the program state.             *)

\* send(c): txreg = c, then wait for the transmitter
send(s, c) == [s EXCEPT !.tx = Append(@, c)]

\* clampBPM without the check against BPM_MAX
clampBPMNoMax(b) ==
    IF b < BPM_MIN THEN BPM_MIN ELSE b

\* the two ifs at the top of setBPM
clampBPM(b) ==
    IF b < BPM_MIN THEN BPM_MIN
    ELSE IF b > BPM_MAX THEN BPM_MAX
    ELSE b

\* timerInitScalar with the division done on the low 16 bits of x
timerInitScalarShort(bpm) ==
    LET x0 == (60 * TIMER_COUNTS_PER_SECOND) \div 24
        x  == U16(x0) \div bpm
    IN  U16(UINT_MAX - x)

\* x = (60 * TIMER_COUNTS_PER_SECOND)/24; x = x / _bpm;
\* timer_init_scalar = 65535 - x  (unsigned long stored in an unsigned int)
timerInitScalar(bpm) ==
    LET x0 == (60 * TIMER_COUNTS_PER_SECOND) \div 24
        x  == x0 \div bpm
    IN  U16(UINT_MAX - x)

\* setBPM(int b): the argument is converted to the 16-bit int parameter
setBPM(s, arg) ==
    LET b == clampBPM(ToInt(arg))
    IN  [s EXCEPT !._bpm = b, !.timer_init_scalar = timerInitScalar(b)]

\* saveOptions without the write of the cookie
saveOptionsNoCookie(s) ==
    [s EXCEPT !.eeprom = [s.eeprom EXCEPT ![EEPROM_ADDR_OPTIONS] = s._options]]

\* eeprom_write(EEPROM_ADDR_OPTIONS, _options);
\* eeprom_write(EEPROM_ADDR_MAGIC_COOKIE, EEPROM_MAGIC_COOKIE);
saveOptions(s) ==
    LET e1 == [s.eeprom EXCEPT ![EEPROM_ADDR_OPTIONS] = s._options]
        e2 == [e1 EXCEPT ![EEPROM_ADDR_MAGIC_COOKIE] = EEPROM_MAGIC_COOKIE]
    IN  [s EXCEPT !.eeprom = e2]

\* _options = eeprom_read(OPTIONS); if(cookie != MAGIC) _options = DEFAULT
loadOptions(s) ==
    LET o == s.eeprom[EEPROM_ADDR_OPTIONS]
    IN  IF s.eeprom[EEPROM_ADDR_MAGIC_COOKIE] # EEPROM_MAGIC_COOKIE
        THEN [s EXCEPT !._options = OPTIONS_DEFAULT]
        ELSE [s EXCEPT !._options = o]

\* midiThru, lines 297-298: q = rxBuffer[rxTail]; ++rxTail (the volatile
\* byte is written back before the comparison with SZ_RXBUFFER)
thruRead(s) ==
    [s EXCEPT !.q = s.rxBuffer[s.rxTail], !.rxTail = U8(s.rxTail + 1)]

\* midiThru, lines 298-299: if(rxTail >= SZ_RXBUFFER) rxTail -= SZ_RXBUFFER
thruWrap(s) ==
    IF s.rxTail >= SZ_RXBUFFER
    THEN [s EXCEPT !.rxTail = U8(s.rxTail - SZ_RXBUFFER)]
    ELSE s

\* (q & 0xF8) == 0xF8
isRealtime(b) == BitAnd(b, REALTIME_MASK) = REALTIME_MASK

\* thruSkips with the two option bits exchanged
thruSkipsSwapped(s) ==
    IF isRealtime(s.q)
    THEN BitAnd(s._options, OPTION_PASSOTHERMSG) = 0
    ELSE BitAnd(s._options, OPTION_PASSREALTIMEMSG) = 0

\* midiThru, lines 302-313: TRUE when the byte is skipped (continue)
thruSkips(s) ==
    IF isRealtime(s.q)
    THEN BitAnd(s._options, OPTION_PASSREALTIMEMSG) = 0
    ELSE BitAnd(s._options, OPTION_PASSOTHERMSG) = 0

\* midiThru, lines 302-331: both branches of the animate/flicker choice send
\* the byte; they differ in LED output only
thruForward(s) ==
    IF thruSkips(s) THEN s ELSE send(s, s.q)

\* tickStep with the phase wrapping one tick early
tickStepWrapEarly(s) ==
    LET s1 == [s EXCEPT !.tick_flag = 0]
        tc == U8(s.tickCount + 1)
        s2 == IF tc >= TICK_WRAP
              THEN [s1 EXCEPT !.tickCount = 0]
              ELSE [s1 EXCEPT !.tickCount = tc]
    IN  IF s2.running # 0 THEN send(s2, MIDI_SYNCH_TICK) ELSE s2

\* tickStep sending the tick byte whether the transport runs or not
tickStepUngated(s) ==
    LET s1 == [s EXCEPT !.tick_flag = 0]
        tc == U8(s.tickCount + 1)
        s2 == IF tc > TICK_WRAP
              THEN LET s2a == IF s1.midiRestart # 0
                              THEN [send(s1, MIDI_SYNCH_START)
                                       EXCEPT !.midiRestart = 0]
                              ELSE s1
                   IN  [s2a EXCEPT !.tickCount = 0]
              ELSE [s1 EXCEPT !.tickCount = tc]
        s3 == send(s2, MIDI_SYNCH_TICK)
    IN  IF s3.tapCount # 0
           /\ Gt32(Sub32(s3.systemTicks, s3.lastTapSystemTicks),
                   N32(TAP_TIMEOUT))
        THEN [s3 EXCEPT !.lastTapSystemTicks = N32(0),
                        !.firstTapSystemTicks = N32(0),
                        !.tapCount = 0]
        ELSE s3

\* tickStep leaving the restart request pending after its START
tickStepKeepsRestart(s) ==
    LET s1 == [s EXCEPT !.tick_flag = 0]
        tc == U8(s.tickCount + 1)
        s2 == IF tc > TICK_WRAP
              THEN LET s2a == IF s1.midiRestart # 0
                              THEN send(s1, MIDI_SYNCH_START)
                              ELSE s1
                   IN  [s2a EXCEPT !.tickCount = 0]
              ELSE [s1 EXCEPT !.tickCount = tc]
        s3 == IF s2.running # 0 THEN send(s2, MIDI_SYNCH_TICK) ELSE s2
    IN  IF s3.tapCount # 0
           /\ Gt32(Sub32(s3.systemTicks, s3.lastTapSystemTicks),
                   N32(TAP_TIMEOUT))
        THEN [s3 EXCEPT !.lastTapSystemTicks = N32(0),
                        !.firstTapSystemTicks = N32(0),
                        !.tapCount = 0]
        ELSE s3

\* main, lines 495-529: the tick signal is raised
tickStep(s) ==
    LET s1 == [s EXCEPT !.tick_flag = 0]
        tc == U8(s.tickCount + 1)
        s2 == IF tc > TICK_WRAP
              THEN LET s2a == IF s1.midiRestart # 0
                              THEN [send(s1, MIDI_SYNCH_START)
                                       EXCEPT !.midiRestart = 0]
                              ELSE s1
                   IN  [s2a EXCEPT !.tickCount = 0]
              ELSE [s1 EXCEPT !.tickCount = tc]
        s3 == IF s2.running # 0 THEN send(s2, MIDI_SYNCH_TICK) ELSE s2
    IN  IF s3.tapCount # 0
           /\ Gt32(Sub32(s3.systemTicks, s3.lastTapSystemTicks),
                   N32(TAP_TIMEOUT))
        THEN [s3 EXCEPT !.lastTapSystemTicks = N32(0),
                        !.firstTapSystemTicks = N32(0),
                        !.tapCount = 0]
        ELSE s3

\* main, lines 467-575: the mode-dependent step of the loop
mainMode(s) ==
    IF s._mode = MODE_MENU THEN s
    ELSE IF s._mode = MODE_NOCLOCK
    THEN IF Gt32(s.systemTicks, s.nextFade)
         THEN [s EXCEPT !.nextFade = Add32(s.systemTicks, N32(FADE_PERIOD))]
         ELSE s
    ELSE IF s.tick_flag # 0 THEN tickStep(s)
    ELSE s


---------------------------------------------------------------------------
(* The command switch of main (lines 636-804), one operator per case.      *)

\* cmdRun leaving the transport as it is on exit from the menu
cmdRunKeepRunning(s) ==
    IF s._mode = MODE_TAP \/ s._mode = MODE_STEP
    THEN IF s.runLock # 0
         THEN [s EXCEPT !.midiRestart = 1]
         ELSE LET r  == IF s.running # 0 THEN 0 ELSE 1
                  s1 == [s EXCEPT !.running = r]
              IN  IF BitAnd(s._options, OPTION_STARTSTOP) # 0
                  THEN IF r # 0
                       THEN send([s1 EXCEPT !.tickCount = 0], MIDI_SYNCH_START)
                       ELSE send(s1, MIDI_SYNCH_STOP)
                  ELSE s1
    ELSE IF s._mode = MODE_NOCLOCK
    THEN [send(s, MIDI_SYNCH_START) EXCEPT !.running = 1]
    ELSE IF s._mode = MODE_MENU
    THEN [s EXCEPT !._mode = MODE_STEP]
    ELSE s

\* case M_BUTTON_RUN (lines 666-704)
cmdRun(s) ==
    IF s._mode = MODE_TAP \/ s._mode = MODE_STEP
    THEN IF s.runLock # 0
         THEN [s EXCEPT !.midiRestart = 1]
         ELSE LET r  == IF s.running # 0 THEN 0 ELSE 1
                  s1 == [s EXCEPT !.running = r]
              IN  IF BitAnd(s._options, OPTION_STARTSTOP) # 0
                  THEN IF r # 0
                       THEN send([s1 EXCEPT !.tickCount = 0], MIDI_SYNCH_START)
                       ELSE send(s1, MIDI_SYNCH_STOP)
                  ELSE s1
    ELSE IF s._mode = MODE_NOCLOCK
    THEN [send(s, MIDI_SYNCH_START) EXCEPT !.running = 1]
    ELSE IF s._mode = MODE_MENU
    THEN [s EXCEPT !._mode = MODE_STEP, !.running = 0]
    ELSE s

\* case M_BUTTON_RUN|M_LONG_PRESS (lines 706-716)
cmdRunLong(s) ==
    IF s.runLock = 0
    THEN [s EXCEPT !.runLock = 1, !.running = 1]
    ELSE [s EXCEPT !.runLock = 0]

\* cases M_LONG_PRESS|M_BUTTON_DEC, M_AUTO_REPEAT|M_BUTTON_DEC (lines 763-767)
cmdDecRepeat(s) ==
    IF s._mode = MODE_STEP THEN setBPM(s, s._bpm - 1) ELSE s

\* cases M_LONG_PRESS|M_BUTTON_INC, M_AUTO_REPEAT|M_BUTTON_INC (lines 798-802)
cmdIncRepeat(s) ==
    IF s._mode = MODE_STEP THEN setBPM(s, s._bpm + 1) ELSE s

\* 60000UL / period, as a number (it is at most 60000).  A zero period is a
\* division by zero, whose result the language leaves undefined: u stands for
\* the low word of whatever the divide routine returns.
tapRequest(period, u) ==
    IF period = N32(0) THEN u
    ELSE IF period[1] > 0 THEN 0
    ELSE MS_PER_MINUTE \div period[2]

\* case M_BUTTON_DEC in tap mode (lines 746-761)
tapTempo(s, u) ==
    LET s1 == IF s.tapCount = 0
              THEN [s EXCEPT !.tapCount = 1,
                             !.firstTapSystemTicks = s.systemTicks]
              ELSE IF s.tapCount < TAP_MAX
                      /\ Gt32(s.systemTicks, s.firstTapSystemTicks)
              THEN LET period0 == Sub32(s.systemTicks, s.firstTapSystemTicks)
                       period  == Div32(period0, s.tapCount)
                   IN  [setBPM(s, tapRequest(period, u))
                           EXCEPT !.tapCount = U8(s.tapCount + 1)]
              ELSE s
    IN  [s1 EXCEPT !.lastTapSystemTicks = s.systemTicks]

\* menuDec toggling an option bit at every cursor position
menuDecAllBits(s) ==
    saveOptions([s EXCEPT !._options = BitXor(s._options, 2 ^ s.menuOption)])

\* case M_BUTTON_DEC in menu mode (lines 721-735)
menuDec(s) ==
    LET s1 == IF s.menuOption = 5
              THEN LET b == (s._brightness + 1) % NUM_BRIGHTNESS_LEVELS
                   IN  [s EXCEPT !._brightness = b,
                                 !.maxDuty = brightnessLevels[b + 1]]
              ELSE [s EXCEPT !._options =
                                BitXor(s._options, 2 ^ s.menuOption)]
    IN  saveOptions(s1)

\* case M_BUTTON_DEC (lines 720-767), falling through to the repeat case in
\* step mode
cmdDec(s, u) ==
    IF s._mode = MODE_MENU THEN menuDec(s)
    ELSE IF s._mode = MODE_NOCLOCK THEN [s EXCEPT !._mode = MODE_STEP]
    ELSE IF s._mode = MODE_TAP THEN tapTempo(s, u)
    ELSE cmdDecRepeat(s)

\* case M_BUTTON_INC (lines 771-802), falling through to the repeat case
\* unless the mode is menu or tap
cmdInc(s) ==
    IF s._mode = MODE_MENU
    THEN [s EXCEPT !.menuOption = (s.menuOption + 1) % MENU_SIZE]
    ELSE LET s1 == IF s._mode = MODE_NOCLOCK
                   THEN IF s.running # 0
                        THEN [send(s, MIDI_SYNCH_STOP) EXCEPT !.running = 0]
                        ELSE [send(s, MIDI_SYNCH_CONTINUE)
                                 EXCEPT !.running = 1]
                   ELSE s
         IN  IF s1._mode = MODE_TAP
             THEN [s1 EXCEPT !._mode = MODE_STEP]
             ELSE cmdIncRepeat(s1)

\* switch(thisButtonStatus)
command(s, this, u) ==
    CASE this = M_BUTTON_RUN + M_BUTTON_DEC + M_BUTTON_INC ->
             [s EXCEPT !.menuOption = 0, !._mode = MODE_MENU]
      [] this = M_BUTTON_RUN + M_BUTTON_DEC ->
             [s EXCEPT !._mode = MODE_TAP]
      [] this = M_BUTTON_RUN + M_BUTTON_INC ->
             [s EXCEPT !._mode = MODE_NOCLOCK]
      [] this = M_BUTTON_INC + M_BUTTON_DEC ->
             IF s._mode = MODE_STEP THEN setBPM(s, BPM_DEFAULT) ELSE s
      [] this = M_BUTTON_RUN -> cmdRun(s)
      [] this = M_BUTTON_RUN + M_LONG_PRESS -> cmdRunLong(s)
      [] this = M_BUTTON_DEC -> cmdDec(s, u)
      [] this = M_LONG_PRESS + M_BUTTON_DEC -> cmdDecRepeat(s)
      [] this = M_AUTO_REPEAT + M_BUTTON_DEC -> cmdDecRepeat(s)
      [] this = M_BUTTON_INC -> cmdInc(s)
      [] this = M_LONG_PRESS + M_BUTTON_INC -> cmdIncRepeat(s)
      [] this = M_AUTO_REPEAT + M_BUTTON_INC -> cmdIncRepeat(s)
      [] OTHER -> s

\* if(systemTicks >= debouncePeriodEnd): the gate of the button poll
debounceOpen(s) == Ge32(s.systemTicks, s.debouncePeriodEnd)

\* main, lines 588-806: poll the buttons (p is the mask of the buttons that
\* are down on the port pins), debounce, auto-repeat, and run the command
userInput(s, p, u) ==
    IF ~debounceOpen(s) THEN [s EXCEPT !.event = 0]
    ELSE
    LET buttonActivity == BitXor(p, s.lastButtonStatus)
        s1 == [s EXCEPT !.lastButtonStatus = p]
        \* r = <<state, thisButtonStatus, buttonsPressed>>
        r == IF buttonActivity = 0
             THEN IF p # 0 /\ Gt32(s1.systemTicks, s1.autoRepeatBegin)
                  THEN IF s1.nextAutoRepeat = N32(0)
                       THEN <<[s1 EXCEPT !.nextAutoRepeat =
                                  Add32(s1.systemTicks,
                                        N32(AUTO_REPEAT_INTERVAL))],
                              BitOr(p, M_LONG_PRESS), BitOr(p, M_LONG_PRESS)>>
                       ELSE IF Gt32(s1.systemTicks, s1.nextAutoRepeat)
                       THEN <<[s1 EXCEPT !.nextAutoRepeat =
                                  Add32(s1.systemTicks,
                                        N32(AUTO_REPEAT_INTERVAL))],
                              BitOr(p, M_AUTO_REPEAT),
                              BitOr(p, M_AUTO_REPEAT)>>
                       ELSE <<s1, p, 0>>
                  ELSE <<s1, p, 0>>
             ELSE LET pressed == BitAnd(buttonActivity, p)
                      s2 == IF pressed # 0
                            THEN [s1 EXCEPT
                                    !.autoRepeatBegin =
                                        Add32(s1.systemTicks,
                                              N32(AUTO_REPEAT_DELAY)),
                                    !.nextAutoRepeat = N32(0)]
                            ELSE s1
                  IN  <<[s2 EXCEPT !.debouncePeriodEnd =
                                      Add32(s2.systemTicks,
                                            N32(DEBOUNCE_PERIOD))],
                        p, pressed>>
    IN  IF r[3] # 0
        THEN [command(r[1], r[2], u) EXCEPT !.event = r[2]]
        ELSE [r[1] EXCEPT !.event = 0]


---------------------------------------------------------------------------
(* Power-up: the state main() has built when it enters the app loop.       *)

\* globals and locals as initialised at lines 125-165 and 377-402
zeroState(ee) ==
    [tick_flag |-> 0, systemTicks |-> N32(0),
     rxBuffer |-> [i \in 0..(SZ_RXBUFFER - 1) |-> 0], rxHead |-> 0,
     rxTail |-> 0, timer_init_scalar |-> 0, _options |-> OPTIONS_DEFAULT,
     _mode |-> MODE_STEP, _brightness |-> 0, _bpm |-> 0, running |-> 0,
     tickCount |-> 0, lastButtonStatus |-> 0, autoRepeatBegin |-> N32(0),
     nextAutoRepeat |-> N32(0), nextFade |-> N32(0),
     debouncePeriodEnd |-> N32(0), lastTapSystemTicks |-> N32(0),
     firstTapSystemTicks |-> N32(0), tapCount |-> 0,
     menuOption |-> 0, runLock |-> 0, midiRestart |-> 0,
     maxDuty |-> brightnessLevels[1], q |-> 0, eeprom |-> ee, tx |-> <<>>,
     event |-> 0]

\* main, lines 423-458: setBPM(BPM_DEFAULT); _mode = MODE_STEP; loadOptions()
bootState(ee) ==
    loadOptions([setBPM(zeroState(ee), BPM_DEFAULT) EXCEPT !._mode = MODE_STEP])

\* an EEPROM image: the cookie byte and the options byte
eepromImage(cookie, opts) ==
    (EEPROM_ADDR_MAGIC_COOKIE :> cookie) @@ (EEPROM_ADDR_OPTIONS :> opts)

\* The k-th byte (k = 0, 1, ...) of the input stream <<first byte, step>>.
\* An odd step makes any 256 consecutive bytes of a stream distinct, so a
\* reordered, repeated or lost byte shows.
streamByte(st, k) == (st[1] + st[2] * k) % TwoTo8

\* no read of systemTicks is under way
NoRead == [from |-> N32(0), bytes |-> <<>>]

\* Power-up with one of the EEPROM images ees, the receiver fed from one of
\* the streams sts
InitFrom(ees, sts) ==
    \E ee \in ees, st \in sts :
        LET s == bootState(ee)
        IN  /\ tick_flag = s.tick_flag
            /\ systemTicks = s.systemTicks
            /\ rxBuffer = s.rxBuffer
            /\ rxHead = s.rxHead
            /\ rxTail = s.rxTail
            /\ timer_init_scalar = s.timer_init_scalar
            /\ _options = s._options
            /\ _mode = s._mode
            /\ _brightness = s._brightness
            /\ _bpm = s._bpm
            /\ running = s.running
            /\ tickCount = s.tickCount
            /\ lastButtonStatus = s.lastButtonStatus
            /\ autoRepeatBegin = s.autoRepeatBegin
            /\ nextAutoRepeat = s.nextAutoRepeat
            /\ nextFade = s.nextFade
            /\ debouncePeriodEnd = s.debouncePeriodEnd
            /\ lastTapSystemTicks = s.lastTapSystemTicks
            /\ firstTapSystemTicks = s.firstTapSystemTicks
            /\ tapCount = s.tapCount
            /\ menuOption = s.menuOption
            /\ runLock = s.runLock
            /\ midiRestart = s.midiRestart
            /\ maxDuty = s.maxDuty
            /\ q = s.q
            /\ eeprom = s.eeprom
            /\ tx = s.tx
            /\ event = s.event
            /\ port = 0
            /\ pc = "thru"
            /\ rxStream = st
            /\ rxCount = 0
            /\ rxPending = <<>>
            /\ rxDropped = 0
            /\ nChanges = 0
            /\ nBoots = 0
            /\ nTicks = 0
            /\ elapsed = 0
            /\ clockRead = NoRead
            /\ longPresses = 0
            /\ lastTransport = 0

---------------------------------------------------------------------------
(* The interrupt handler (lines 170-212), one action per interrupt source. *)

\* rxPush storing the byte at the new head instead of the old one
rxPushAtNextHead(s, b) ==
    LET nextHead0 == U8(s.rxHead + 1)
        nextHead  == IF nextHead0 >= SZ_RXBUFFER
                     THEN U8(nextHead0 - SZ_RXBUFFER) ELSE nextHead0
    IN  IF nextHead # s.rxTail
        THEN [s EXCEPT !.rxBuffer = [@ EXCEPT ![nextHead] = b],
                       !.rxHead = nextHead]
        ELSE s

\* serial rx ISR, lines 195-210: the state after a byte b arrived
rxPush(s, b) ==
    LET nextHead0 == U8(s.rxHead + 1)
        nextHead  == IF nextHead0 >= SZ_RXBUFFER
                     THEN U8(nextHead0 - SZ_RXBUFFER) ELSE nextHead0
    IN  IF nextHead # s.rxTail
        THEN [s EXCEPT !.rxBuffer = [@ EXCEPT ![s.rxHead] = b],
                       !.rxHead = nextHead]
        ELSE s

\* A byte arrives at the receiver.  inWindow: whether a byte may arrive
\* between the increment of rxTail and its wrap.
InterruptRx(maxRx, inWindow) ==
    /\ rxCount < maxRx
    /\ pc \in {"thru", "wrap"}
    /\ inWindow \/ pc # "wrap"
    /\ LET b == streamByte(rxStream, rxCount)
           s == rxPush(Cur, b)
           stored == s.rxHead # rxHead
       IN  /\ rxBuffer' = s.rxBuffer
           /\ rxHead' = s.rxHead
           /\ rxPending' = IF stored THEN Append(rxPending, b) ELSE rxPending
           /\ rxDropped' = IF stored THEN rxDropped ELSE rxDropped + 1
    /\ rxCount' = rxCount + 1
    /\ UNCHANGED <<clockRead, longPresses, lastTransport>>
    /\ UNCHANGED <<tick_flag, systemTicks, rxTail, timer_init_scalar, _options,
                   _mode, _brightness, _bpm, running, tickCount,
                   lastButtonStatus, autoRepeatBegin, nextAutoRepeat, nextFade,
                   debouncePeriodEnd, lastTapSystemTicks, firstTapSystemTicks,
                   tapCount, menuOption, runLock, midiRestart, maxDuty, q,
                   eeprom, tx, event, port, pc, rxStream, nChanges, nBoots,
                   nTicks,
                   elapsed>>

\* timer 1 rollover, lines 183-189: tick_flag = 1
InterruptTimer1(maxTicks) ==
    /\ nTicks < maxTicks
    /\ tick_flag' = 1
    /\ nTicks' = nTicks + 1
    /\ UNCHANGED <<clockRead, longPresses, lastTransport>>
    /\ UNCHANGED <<systemTicks, rxBuffer, rxHead, rxTail, timer_init_scalar,
                   _options, _mode, _brightness, _bpm, running, tickCount,
                   lastButtonStatus, autoRepeatBegin, nextAutoRepeat, nextFade,
                   debouncePeriodEnd, lastTapSystemTicks, firstTapSystemTicks,
                   tapCount, menuOption, runLock, midiRestart, maxDuty, q,
                   eeprom, tx, event, port, pc, rxCount, rxStream, rxPending,
                   rxDropped, nChanges, nBoots, elapsed>>

\* n rollovers of timer 0 (n an unsigned long), lines 174-179:
\* systemTicks++ each
timer0(s, n) == [s EXCEPT !.systemTicks = Add32(s.systemTicks, n)]

\* One pass of the loop body from its top, with an empty receive queue
loopBody(s, p) == userInput(mainMode(s), p, 0)

\* d milliseconds from now a pass of the loop body changes nothing
IdleAt(d) ==
    LET s == timer0(Cur, d)
        r == loopBody(s, port)
    IN  /\ pc = "thru"
        /\ rxHead = rxTail
        /\ [r EXCEPT !.event = s.event] = s

\* The clock is read only in comparisons with stored times; these are the
\* offsets from now at which one of them changes its outcome.
CrossOffsets ==
    {Sub32(x, systemTicks) :
        x \in {N32(0), debouncePeriodEnd, Add32(autoRepeatBegin, N32(1)),
               Add32(nextAutoRepeat, N32(1)), Add32(nextFade, N32(1)),
               Add32(firstTapSystemTicks, N32(1)), lastTapSystemTicks,
               Add32(lastTapSystemTicks, N32(TAP_TIMEOUT + 1))}} \ {N32(0)}

\* the offsets at which the loop body has something to do
Due == {d \in CrossOffsets : ~IdleAt(d)}

\* the step n does not go past a moment at which something is due
NothingMissed(n) == \A d \in Due : Ge32(d, n)

\* One millisecond passes (at any point of the main loop).
InterruptTimer0(maxMs) ==
    /\ elapsed < maxMs
    /\ systemTicks' = timer0(Cur, N32(1)).systemTicks
    /\ elapsed' = elapsed + 1
    /\ UNCHANGED <<clockRead, longPresses, lastTransport>>
    /\ UNCHANGED <<tick_flag, rxBuffer, rxHead, rxTail, timer_init_scalar,
                   _options, _mode, _brightness, _bpm, running, tickCount,
                   lastButtonStatus, autoRepeatBegin, nextAutoRepeat, nextFade,
                   debouncePeriodEnd, lastTapSystemTicks, firstTapSystemTicks,
                   tapCount, menuOption, runLock, midiRestart, maxDuty, q,
                   eeprom, tx, event, port, pc, rxCount, rxStream, rxPending,
                   rxDropped, nChanges, nBoots, nTicks>>

\* n milliseconds pass while every pass of the loop body finds nothing to
\* do: n is one of steps, or the time to the next moment something is due,
\* and never goes past that moment.
Timer0Idle(steps, maxMs) ==
    /\ IdleAt(N32(0))
    /\ \E n \in {N32(k) : k \in steps} \cup Due :
        /\ NothingMissed(n)
        /\ n[1] = 0
        /\ elapsed + n[2] <= maxMs
        /\ systemTicks' = timer0(Cur, n).systemTicks
        /\ elapsed' = elapsed + n[2]
    /\ UNCHANGED <<clockRead, longPresses, lastTransport>>
    /\ UNCHANGED <<tick_flag, rxBuffer, rxHead, rxTail, timer_init_scalar,
                   _options, _mode, _brightness, _bpm, running, tickCount,
                   lastButtonStatus, autoRepeatBegin, nextAutoRepeat, nextFade,
                   debouncePeriodEnd, lastTapSystemTicks, firstTapSystemTicks,
                   tapCount, menuOption, runLock, midiRestart, maxDuty, q,
                   eeprom, tx, event, port, pc, rxCount, rxStream, rxPending,
                   rxDropped, nChanges, nBoots, nTicks>>

\* Timer0Idle, for as long as the device has not been powered for more than
\* maxUptime ms (below 2^16)
Timer0IdleUntil(steps, maxMs, maxUptime) ==
    /\ Timer0Idle(steps, maxMs)
    /\ systemTicks'[1] = 0
    /\ systemTicks'[2] <= maxUptime

\* The device is left alone after power-up for one of the given times
\* (unsigned longs).
LongIdle(times) ==
    /\ nChanges = 0
    /\ elapsed = 0
    /\ systemTicks = N32(0)
    /\ IdleAt(N32(0))
    /\ \E n \in times :
        /\ NothingMissed(n)
        /\ systemTicks' = timer0(Cur, n).systemTicks
    /\ UNCHANGED <<clockRead, longPresses, lastTransport>>
    /\ UNCHANGED <<tick_flag, rxBuffer, rxHead, rxTail, timer_init_scalar,
                   _options, _mode, _brightness, _bpm, running, tickCount,
                   lastButtonStatus, autoRepeatBegin, nextAutoRepeat, nextFade,
                   debouncePeriodEnd, lastTapSystemTicks, firstTapSystemTicks,
                   tapCount, menuOption, runLock, midiRestart, maxDuty, q,
                   eeprom, tx, event, port, pc, rxCount, rxStream, rxPending,
                   rxDropped, nChanges, nBoots, nTicks, elapsed>>

\* The user changes which buttons are down (seen by the loop at its next
\* poll, so the change is taken at the top of the loop).
Buttons(masks, maxChanges) ==
    /\ pc = "thru"
    /\ nChanges < maxChanges
    /\ \E m \in masks : m # port /\ port' = m
    /\ nChanges' = nChanges + 1
    /\ elapsed' = 0
    /\ UNCHANGED <<progVars, pc, rxCount, rxStream, rxPending, rxDropped,
                   nTicks, nBoots, clockRead, longPresses, lastTransport>>

\* the user changes the buttons only after the loop has seen the last change
ButtonsSettled(masks, maxChanges) ==
    /\ port = lastButtonStatus
    /\ Buttons(masks, maxChanges)

---------------------------------------------------------------------------
(* The main loop (lines 461-807).                                          *)

envSame == UNCHANGED <<port, rxCount, rxStream, rxDropped, nChanges, nBoots,
                       nTicks, elapsed, clockRead>>

\* midiThru, lines 290-299: return when the queue is empty, else read the
\* byte at rxTail and increment rxTail
MidiThruRead ==
    /\ pc = "thru"
    /\ IF rxHead = rxTail
       THEN /\ Commit(Cur)
            /\ pc' = "mode"
            /\ UNCHANGED rxPending
       ELSE /\ Commit(thruRead(Cur))
            /\ pc' = "wrap"
            /\ rxPending' = IF rxPending = <<>> THEN <<>> ELSE Tail(rxPending)
    /\ UNCHANGED <<longPresses, lastTransport>>
    /\ envSame

\* midiThru, lines 298-331: wrap rxTail, filter the byte, send it
MidiThruSend ==
    /\ pc = "wrap"
    /\ Commit(thruForward(thruWrap(Cur)))
    /\ pc' = "thru"
    /\ UNCHANGED <<rxPending, longPresses, lastTransport>>
    /\ envSame

\* the bytes START, CONTINUE and STOP
TransportBytes == {MIDI_SYNCH_START, MIDI_SYNCH_CONTINUE, MIDI_SYNCH_STOP}

\* the last transport byte among the first n of bytes, or else before
RECURSIVE LastTransportIn(_, _, _)
LastTransportIn(bytes, n, before) ==
    IF n = 0 THEN before
    ELSE IF bytes[n] \in TransportBytes THEN bytes[n]
    ELSE LastTransportIn(bytes, n - 1, before)

\* the transport bytes the step has sent (calls of send at lines 502, 682,
\* 686, 694, 783 and 788) are taken note of
TrackTransport ==
    lastTransport' = LastTransportIn(tx', Len(tx'), lastTransport)

\* main, lines 467-575
MainMode ==
    /\ pc = "mode"
    /\ Commit(mainMode(Cur))
    /\ pc' = "input"
    /\ TrackTransport
    /\ UNCHANGED <<rxPending, longPresses>>
    /\ envSame

\* what a division by zero may return (the low word of the unsigned long)
UndefinedQuotients == {0, TwoTo16 - 1}

\* the count of long-press events stops here
MaxLongPresses == 2

\* the poll just made is counted: an event with the long-press flag (line
\* 608) adds one, an event without flags is a press (lines 621-627) and
\* starts the count again, an auto-repeat event (line 614) or no event
\* leaves it
CountLongPress ==
    longPresses' =
        IF BitAnd(event', M_LONG_PRESS) # 0
        THEN IF longPresses < MaxLongPresses
             THEN longPresses + 1 ELSE longPresses
        ELSE IF event' = 0 \/ BitAnd(event', M_AUTO_REPEAT) # 0
        THEN longPresses
        ELSE 0

\* main, lines 577-806
MainInput ==
    /\ pc = "input"
    /\ \E u \in UndefinedQuotients : Commit(userInput(Cur, port, u))
    /\ pc' = "thru"
    /\ CountLongPress
    /\ TrackTransport
    /\ UNCHANGED rxPending
    /\ envSame

\* Power is removed and applied again: main() runs from its start with the
\* EEPROM as it was left; the receiver's stream goes on.
PowerCycle(maxBoots) ==
    /\ nBoots < maxBoots
    /\ Commit(bootState(eeprom))
    /\ pc' = "thru"
    /\ port' = 0
    /\ rxPending' = <<>>
    /\ nBoots' = nBoots + 1
    /\ elapsed' = 0
    /\ clockRead' = NoRead
    /\ longPresses' = 0
    /\ lastTransport' = 0
    /\ UNCHANGED <<rxCount, rxStream, rxDropped, nChanges, nTicks>>

---------------------------------------------------------------------------
(* Receive queue alone: bytes arrive while the loop drains them (no byte   *)
(* arrives between the increment of rxTail and its wrap).                  *)

MaxRxQueue == 26
QueueStreams == {<<60, 1>>, <<240, 7>>}
BlankEeprom == {eepromImage(255, 255)}

InitQueue == InitFrom(BlankEeprom, QueueStreams)
NextQueue ==
    \/ InterruptRx(MaxRxQueue, FALSE)
    \/ MidiThruRead
    \/ MidiThruSend
    \/ MainMode
    \/ MainInput
SpecQueue == InitQueue /\ [][NextQueue]_vars


\* (rxHead + 1) mod SZ_RXBUFFER == rxTail: the queue holds capacity - 1 bytes
QueueFull == (rxHead + 1) % SZ_RXBUFFER = rxTail

\* C1: the receive queue is first-in first-out and never overfilled.  Every
\* arriving byte that finds the queue not full is accepted and one that finds
\* (rxHead + 1) mod 20 = rxTail stores nothing, leaving rxHead, rxTail and the
\* buffer as they were; every pop in midiThru returns the oldest accepted
\* byte that was not popped yet, and midiThru reports the queue empty exactly
\* when every accepted byte has been popped.  So up to 19 bytes pushed into
\* an empty queue come out, all of them, in arrival order.
C1_QueueFifo ==
    [][/\ (rxCount' # rxCount /\ QueueFull)
            => /\ UNCHANGED <<rxHead, rxTail, rxBuffer>>
               /\ rxPending' = rxPending
       /\ (rxCount' # rxCount /\ ~QueueFull)
            => /\ rxPending' = Append(rxPending, streamByte(rxStream, rxCount))
               /\ Len(rxPending') <= SZ_RXBUFFER - 1
       /\ (pc = "thru" /\ pc' # "thru")
            => IF rxPending = <<>>
               THEN pc' = "mode" /\ rxTail' = rxTail
               ELSE pc' = "wrap" /\ q' = Head(rxPending)]_vars

\* a byte was refused by a full queue after at least 19 were accepted, and
\* every accepted byte has been popped since
C1_Witness ==
    /\ rxDropped > 0
    /\ rxCount >= SZ_RXBUFFER
    /\ rxPending = <<>>
    /\ pc = "mode"


---------------------------------------------------------------------------
(* Tempo: the user presses or holds Inc, Dec or both during the first      *)
(* seconds after power-up.  Time moves only to the next moment at which    *)
(* the loop has something to do (the end of a debounce period, the long    *)
(* press, each auto-repeat).                                               *)

MaxTempoChanges == 1
MaxTempoMs == 15500
TempoMasks ==
    {0, M_BUTTON_INC, M_BUTTON_DEC, M_BUTTON_INC + M_BUTTON_DEC}

InitTempo == InitFrom(BlankEeprom, {<<60, 1>>})
NextTempo ==
    \/ Buttons(TempoMasks, MaxTempoChanges)
    \/ Timer0IdleUntil({}, MaxTempoMs, MaxTempoMs)
    \/ MidiThruRead
    \/ MainMode
    \/ MainInput
SpecTempo == InitTempo /\ [][NextTempo]_vars

\* a poll of the buttons (one pass through lines 587-806)
Polled == pc = "input" /\ pc' = "thru"
\* a poll that entered the command switch with value m
Emitted(m) == Polled /\ event' = m

DecEvents == {M_BUTTON_DEC, M_BUTTON_DEC + M_LONG_PRESS,
              M_BUTTON_DEC + M_AUTO_REPEAT}
IncEvents == {M_BUTTON_INC, M_BUTTON_INC + M_LONG_PRESS,
              M_BUTTON_INC + M_AUTO_REPEAT}

\* requests to setBPM (int), and the tempo setBPM(b) stores
TempoRequests == {-32768, -1, 0, 29, 30, 31, 120, 299, 300, 301, 32767}
StoredFor(b) ==
    setBPM([_bpm |-> _bpm, timer_init_scalar |-> timer_init_scalar], b)._bpm

\* C2: at any moment setBPM(b) stores min(max(b, 30), 300), and the
\* configured tempo is always within [30, 300].  In step mode a Dec press,
\* long press or auto-repeat stores max(_bpm - 1, 30), an Inc press, long
\* press or auto-repeat stores min(_bpm + 1, 300) (so Dec at 30 and Inc at
\* 300 leave it unchanged), Inc+Dec stores the default, and nothing else
\* changes the tempo.
C2_TempoClamped ==
    /\ [](\A b \in TempoRequests :
            StoredFor(b) = IF b < 30 THEN 30 ELSE IF b > 300 THEN 300 ELSE b)
    /\ [](_bpm \in BPM_MIN..BPM_MAX)
    /\ [][/\ (Polled /\ _mode = MODE_STEP /\ event' \in DecEvents)
               => _bpm' = IF _bpm - 1 < BPM_MIN THEN BPM_MIN ELSE _bpm - 1
          /\ (Polled /\ _mode = MODE_STEP /\ event' \in IncEvents)
               => _bpm' = IF _bpm + 1 > BPM_MAX THEN BPM_MAX ELSE _bpm + 1
          /\ (Polled /\ _mode = MODE_STEP
                     /\ event' = M_BUTTON_INC + M_BUTTON_DEC)
               => _bpm' = BPM_DEFAULT
          /\ ~(Polled /\ event' # 0) => _bpm' = _bpm]_vars

\* Inc has auto-repeated with the tempo already at 300, and the tempo is 300
C2_Witness ==
    /\ _bpm = BPM_MAX
    /\ event = M_BUTTON_INC + M_AUTO_REPEAT
    /\ elapsed > 15000

\* the timer reload value setBPM(b) derives
ReloadFor(b) ==
    setBPM([_bpm |-> _bpm, timer_init_scalar |-> timer_init_scalar],
           b).timer_init_scalar

\* the tempos next to the current one, and the two ends of the range
Neighbours == {_bpm - 1, _bpm + 1, BPM_MIN, BPM_MAX} \cap (BPM_MIN..BPM_MAX)

\* C3 as claimed: a tempo above the current one has a strictly smaller
\* timer reload value than the current one.
C3_Original ==
    \A b \in Neighbours : b > _bpm => ReloadFor(b) < timer_init_scalar

\* C3, amended: the timer reload value setBPM derives strictly increases
\* with the tempo: at every tempo in [30, 300] (the behaviours pass through
\* each of them) setBPM derives a larger reload value for the next tempo up
\* and for 300, and a smaller one for the next tempo down and for 30.  (The
\* timer counts up from the reload value, so the tick period strictly
\* decreases.)
C3_ReloadIncreases ==
    \A b \in Neighbours :
        /\ b > _bpm => ReloadFor(b) > timer_init_scalar
        /\ b < _bpm => ReloadFor(b) < timer_init_scalar

\* the tempo has been brought down to the minimum by holding Dec
C3_Witness ==
    /\ _bpm = BPM_MIN
    /\ event = M_BUTTON_DEC + M_AUTO_REPEAT
    /\ timer_init_scalar = UINT_MAX - 41666


---------------------------------------------------------------------------
(* Tick phase: timer 1 raises the tick signal at any moment while the user *)
(* starts and stops the transport and changes mode.                        *)

MaxTickChanges == 1
MaxTicks == 24
MaxTickMs == 100
TickMasks ==
    {0, M_BUTTON_RUN, M_BUTTON_RUN + M_BUTTON_INC, M_BUTTON_RUN + M_BUTTON_DEC,
     M_BUTTON_RUN + M_BUTTON_INC + M_BUTTON_DEC}
TickEeproms ==
    {eepromImage(255, 255),
     eepromImage(EEPROM_MAGIC_COOKIE, OPTION_PASSOTHERMSG)}

InitTick == InitFrom(TickEeproms, {<<60, 1>>})
NextTick ==
    \/ ButtonsSettled(TickMasks, MaxTickChanges)
    \/ InterruptTimer1(MaxTicks)
    \/ Timer0Idle({}, MaxTickMs)
    \/ MidiThruRead
    \/ MainMode
    \/ MainInput
SpecTick == InitTick /\ [][NextTick]_vars

\* one pass through the mode step of the loop (lines 467-575)
ModeStep == pc = "mode" /\ pc' = "input"
\* a pass that finds the tick signal raised in step or tap mode (line 495)
TickConsumed ==
    ModeStep /\ tick_flag # 0 /\ _mode \in {MODE_STEP, MODE_TAP}
\* a Run press that starts the transport with START/STOP messages enabled
\* (lines 676-682)
RunStart ==
    /\ Emitted(M_BUTTON_RUN)
    /\ _mode \in {MODE_STEP, MODE_TAP}
    /\ runLock = 0
    /\ running = 0
    /\ BitAnd(_options, OPTION_STARTSTOP) # 0

\* C4 as claimed: the phase stays in [0, 23], every pass of the loop that
\* finds the tick signal raised advances it by one modulo 24, and it does
\* not change otherwise.
C4_Original ==
    /\ [](tickCount \in 0..TICK_WRAP)
    /\ [][/\ (ModeStep /\ tick_flag # 0)
               => tickCount' = (tickCount + 1) % (TICK_WRAP + 1)
          /\ ~(ModeStep /\ tick_flag # 0) => tickCount' = tickCount]_vars

\* C4, amended: the tick phase stays in [0, 23].  In step and tap mode a
\* pass of the loop that finds the tick signal raised clears the signal and
\* advances the phase by exactly one modulo 24; in no-clock and menu mode
\* the signal is left raised and the phase stands still.  Apart from that
\* the phase changes only when a Run press starts the transport with
\* START/STOP messages enabled, which sets it to 0.
C4_TickPhase ==
    /\ [](tickCount \in 0..TICK_WRAP)
    /\ [][/\ TickConsumed
               => /\ tickCount' = (tickCount + 1) % (TICK_WRAP + 1)
                  /\ tick_flag' = 0
          /\ (ModeStep /\ _mode \in {MODE_NOCLOCK, MODE_MENU})
               => UNCHANGED <<tickCount, tick_flag>>
          /\ RunStart => tickCount' = 0
          /\ ~(TickConsumed \/ RunStart) => tickCount' = tickCount]_vars

\* twenty-four ticks were consumed one by one and the phase has wrapped
C4_Witness ==
    /\ nTicks = 24
    /\ tick_flag = 0
    /\ tickCount = 0
    /\ nChanges = 0

\* a Run press has restarted the phase in the middle of a beat
C4_WitnessRestart ==
    /\ event = M_BUTTON_RUN
    /\ running = 1
    /\ tickCount = 0
    /\ nTicks = 3
    /\ tick_flag = 0
    /\ nChanges = 1


---------------------------------------------------------------------------
(* Tap tempo: the user enters tap mode with Run+Dec and taps Dec, 200 ms   *)
(* or more apart, never leaving the buttons alone for more than 400 ms;   *)
(* the device may have been powered for 2^32 - 350 ms before the first     *)
(* press.                                                                  *)

MaxTapEntries == 1
MaxTapChanges == 5
MaxSessionChanges == 15
MaxTapMs == 400
TapGap == 400
\* 2^32 - 350
TapUptimes == {<<TwoTo16 - 1, TwoTo16 - 350>>}

InitTap == InitFrom(BlankEeprom, {<<60, 1>>})
NextTapNoRollover ==
    \/ ButtonsSettled({M_BUTTON_RUN + M_BUTTON_DEC}, MaxTapEntries)
    \/ ButtonsSettled({0, M_BUTTON_DEC}, MaxSessionChanges)
    \/ Timer0Idle({TapGap}, MaxTapMs)
    \/ MidiThruRead
    \/ MainMode
    \/ MainInput
NextTap ==
    \/ ButtonsSettled({M_BUTTON_RUN + M_BUTTON_DEC}, MaxTapEntries)
    \/ ButtonsSettled({0, M_BUTTON_DEC}, MaxTapChanges)
    \/ Timer0Idle({TapGap}, MaxTapMs)
    \/ LongIdle(TapUptimes)
    \/ MidiThruRead
    \/ MainMode
    \/ MainInput
SpecTapNoRollover == InitTap /\ [][NextTapNoRollover]_vars
SpecTap == InitTap /\ [][NextTap]_vars

\* a Dec press event in tap mode
Tapped == Emitted(M_BUTTON_DEC) /\ _mode = MODE_TAP
\* the time since the first tap of the session, and that time divided by
\* the number of taps before this one
SinceFirstTap == Sub32(systemTicks, firstTapSystemTicks)
TapPeriod == Div32(SinceFirstTap, tapCount)
TapTempo ==
    LET bpm == IF TapPeriod[1] > 0 THEN 0 ELSE MS_PER_MINUTE \div TapPeriod[2]
    IN  IF bpm < BPM_MIN THEN BPM_MIN
        ELSE IF bpm > BPM_MAX THEN BPM_MAX ELSE bpm

\* C5: in tap mode the first Dec press of a session (tap count 0) records
\* the time and leaves the tempo alone; the k-th press, 2 <= k <= 6 (tap
\* count k-1), with nonzero time since the first tap (and a nonzero
\* quotient) sets the tempo to
\* clamp(60000 / ((now - firstTapTime) / (k-1))); a press at tap count 6
\* changes neither the tempo nor the count; the tap count never exceeds 6.
C5_TapTempo ==
    /\ [](tapCount <= TAP_MAX)
    /\ [][/\ (Tapped /\ tapCount = 0)
               => /\ firstTapSystemTicks' = systemTicks
                  /\ tapCount' = 1
                  /\ _bpm' = _bpm
          /\ (Tapped /\ tapCount \in 1..(TAP_MAX - 1)
                     /\ SinceFirstTap # N32(0) /\ TapPeriod # N32(0))
               => /\ _bpm' = TapTempo
                  /\ firstTapSystemTicks' = firstTapSystemTicks
          /\ (Tapped /\ tapCount = TAP_MAX)
               => UNCHANGED <<_bpm, tapCount, firstTapSystemTicks>>]_vars

\* the fourth of four taps 500 ms apart has left the tempo at 120
C5_FourTaps ==
    /\ event = M_BUTTON_DEC
    /\ _mode = MODE_TAP
    /\ tapCount = 4
    /\ SinceFirstTap = N32(1500)
    /\ _bpm = BPM_DEFAULT

\* a seventh tap has been made
C5_SeventhTap ==
    /\ event = M_BUTTON_DEC
    /\ _mode = MODE_TAP
    /\ tapCount = TAP_MAX
    /\ nChanges = 15


---------------------------------------------------------------------------
(* Options: the user opens the menu, moves the cursor and toggles options, *)
(* and the power is cycled at any moment between two loop steps.  The      *)
(* EEPROM starts blank, or with garbage, or with a saved options byte.     *)

MaxOptionChanges == 5
MaxOptionBoots == 2
MaxOptionMs == 100
OptionMasks ==
    {0, M_BUTTON_DEC, M_BUTTON_INC,
     M_BUTTON_RUN + M_BUTTON_INC + M_BUTTON_DEC}
OptionEeproms ==
    {eepromImage(255, 255), eepromImage(0, 1),
     eepromImage(EEPROM_MAGIC_COOKIE, 0),
     eepromImage(EEPROM_MAGIC_COOKIE, OPTIONS_DEFAULT),
     eepromImage(EEPROM_MAGIC_COOKIE, 170),
     eepromImage(EEPROM_MAGIC_COOKIE, 255)}

InitOptions == InitFrom(OptionEeproms, {<<60, 1>>})
NextOptions ==
    \/ ButtonsSettled(OptionMasks, MaxOptionChanges)
    \/ Timer0Idle({}, MaxOptionMs)
    \/ PowerCycle(MaxOptionBoots)
    \/ MidiThruRead
    \/ MainMode
    \/ MainInput
SpecOptions == InitOptions /\ [][NextOptions]_vars

\* what the EEPROM holds for the next power-up
Persisted ==
    IF eeprom[EEPROM_ADDR_MAGIC_COOKIE] = EEPROM_MAGIC_COOKIE
    THEN eeprom[EEPROM_ADDR_OPTIONS]
    ELSE OPTIONS_DEFAULT

\* the options byte loadOptions yields after saveOptions with _options = v
RoundTrip(v) ==
    loadOptions(saveOptions([_options |-> v, eeprom |-> eeprom]))._options
\* the options byte loadOptions yields with cookie byte c and options byte v
\* in the EEPROM
LoadedFrom(c, v) ==
    loadOptions([_options |-> _options, eeprom |-> eepromImage(c, v)])._options

\* C6: saveOptions with _options = v followed by loadOptions yields v, for
\* every byte v; loadOptions yields the default set for every cookie byte
\* other than 0xA5, whatever the options byte.  So: a Dec press in the menu
\* leaves the EEPROM holding the valid cookie
\* and the options byte as it is after the press; a power cycle leaves the
\* EEPROM alone and comes up with the options byte that was saved, and with
\* the defaults when the cookie byte is not 0xA5; so the options in use are
\* always the ones a power cycle would restore.
C6_OptionsPersist ==
    /\ [](\A v \in Byte : RoundTrip(v) = v)
    /\ [](\A c \in Byte \ {EEPROM_MAGIC_COOKIE} :
            LoadedFrom(c, eeprom[EEPROM_ADDR_OPTIONS]) = OPTIONS_DEFAULT)
    /\ [](_options = Persisted)
    /\ [][/\ (Emitted(M_BUTTON_DEC) /\ _mode = MODE_MENU)
               => /\ eeprom'[EEPROM_ADDR_MAGIC_COOKIE] = EEPROM_MAGIC_COOKIE
                  /\ eeprom'[EEPROM_ADDR_OPTIONS] = _options'
          /\ (nBoots' # nBoots)
               => /\ eeprom' = eeprom
                  /\ _options' = _options
                  /\ eeprom[EEPROM_ADDR_MAGIC_COOKIE] # EEPROM_MAGIC_COOKIE
                       => _options' = OPTIONS_DEFAULT]_vars

\* a device whose EEPROM was blank has come up after a power cycle with an
\* option changed in the menu before the power went
C6_Witness ==
    /\ nBoots = 1
    /\ systemTicks = N32(0)
    /\ _mode = MODE_STEP
    /\ rxStream = <<60, 1>>
    /\ eeprom[EEPROM_ADDR_MAGIC_COOKIE] = EEPROM_MAGIC_COOKIE
    /\ _options = OPTIONS_DEFAULT + OPTION_PASSREALTIMEMSG


---------------------------------------------------------------------------
(* Debounce: the Dec contact bounces (changes at any moment, also while    *)
(* the debounce period runs); the device may have been powered for         *)
(* 2^32 - 50 ms before the first press.                                    *)

MaxBounceChanges == 3
MaxBounceMs == 190
BounceGap == 30
BounceMasks == {0, M_BUTTON_DEC, M_BUTTON_DEC + M_BUTTON_INC}
\* 2^32 - 50
BounceUptimes == {<<TwoTo16 - 1, TwoTo16 - 50>>}

InitBounce == InitFrom(BlankEeprom, {<<60, 1>>})
NextBounceNoRollover ==
    \/ Buttons(BounceMasks, MaxBounceChanges)
    \/ Timer0Idle({BounceGap}, MaxBounceMs)
    \/ MidiThruRead
    \/ MainMode
    \/ MainInput
NextBounce ==
    \/ NextBounceNoRollover
    \/ LongIdle(BounceUptimes)
SpecBounceNoRollover == InitBounce /\ [][NextBounceNoRollover]_vars
SpecBounce == InitBounce /\ [][NextBounce]_vars

\* the debouncer has registered a change (debouncePeriodEnd is 0 from
\* power-up until line 629 stores the first deadline; no deadline of the
\* behaviours below is 0)
Registered == debouncePeriodEnd # N32(0)
\* the time since the debouncer last registered a change (line 629 stored
\* that time plus DEBOUNCE_PERIOD)
SinceRegistered ==
    Sub32(systemTicks, Sub32(debouncePeriodEnd, N32(DEBOUNCE_PERIOD)))

\* C7: no poll emits a button event, and none registers a further change,
\* less than 100 ms after the debouncer registered a change, whatever the
\* buttons do in between.
C7_Debounce ==
    [][(Polled /\ Registered
               /\ (event' # 0 \/ lastButtonStatus' # lastButtonStatus))
          => Ge32(SinceRegistered, N32(DEBOUNCE_PERIOD))]_vars

\* a press was registered, the contact opened and closed again inside the
\* debounce period, and the period has run out
C7_Bounced ==
    /\ nChanges = 3
    /\ port = M_BUTTON_DEC
    /\ lastButtonStatus = M_BUTTON_DEC
    /\ event = 0
    /\ Registered
    /\ SinceRegistered = N32(DEBOUNCE_PERIOD)
    /\ pc = "thru"


---------------------------------------------------------------------------
(* Modes and transport: the user presses Run, Inc and the chords that      *)
(* change mode, from any mode, releasing before a press becomes long.      *)

MaxModeChanges == 5
MaxModeMs == 100
ModeMasks ==
    {0, M_BUTTON_RUN, M_BUTTON_INC, M_BUTTON_RUN + M_BUTTON_INC,
     M_BUTTON_RUN + M_BUTTON_DEC, M_BUTTON_RUN + M_BUTTON_INC + M_BUTTON_DEC}

InitMode == InitFrom(BlankEeprom, {<<60, 1>>})
NextMode ==
    \/ ButtonsSettled(ModeMasks, MaxModeChanges)
    \/ Timer0Idle({}, MaxModeMs)
    \/ MidiThruRead
    \/ MainMode
    \/ MainInput
SpecMode == InitMode /\ [][NextMode]_vars

\* C8: in every mode and transport state an event with mask Run+Inc+Dec
\* sets the mode to menu and the menu cursor to 0; a Run press event in
\* menu mode sets the mode to step and running to false.
C8_MenuEntryExit ==
    [][/\ Emitted(M_BUTTON_RUN + M_BUTTON_INC + M_BUTTON_DEC)
            => _mode' = MODE_MENU /\ menuOption' = 0
       /\ (Emitted(M_BUTTON_RUN) /\ _mode = MODE_MENU)
            => _mode' = MODE_STEP /\ running' = 0]_vars

\* the menu was entered from no-clock mode and left with a Run press
C8_Witness ==
    /\ event = M_BUTTON_RUN
    /\ _mode = MODE_STEP
    /\ running = 0
    /\ nChanges = 4
    /\ Gt32(nextFade, N32(0))

\* the menu was entered from the menu with the cursor on option 1
C8_WitnessMenu ==
    /\ event = M_BUTTON_RUN + M_BUTTON_INC + M_BUTTON_DEC
    /\ _mode = MODE_MENU
    /\ menuOption = 0
    /\ nChanges = 4
    /\ lastButtonStatus = M_BUTTON_RUN + M_BUTTON_INC + M_BUTTON_DEC

---------------------------------------------------------------------------
(* Run lock: the user holds Run for a long press, opens the menu and       *)
(* leaves it.                                                              *)

MaxLockChanges == 4
MaxLockMs == 501
LockMasks ==
    {0, M_BUTTON_RUN, M_BUTTON_INC, M_BUTTON_DEC,
     M_BUTTON_RUN + M_BUTTON_INC + M_BUTTON_DEC}

InitLock == InitFrom(BlankEeprom, {<<60, 1>>})
NextLock ==
    \/ ButtonsSettled(LockMasks, MaxLockChanges)
    \/ Timer0Idle({}, MaxLockMs)
    \/ MidiThruRead
    \/ MainMode
    \/ MainInput
SpecLock == InitLock /\ [][NextLock]_vars

\* C10: in every reachable state runLock set implies running, and while
\* runLock is set no Run, Inc or Dec press event makes running false.
C10_RunLock ==
    /\ [](runLock # 0 => running # 0)
    /\ [][(Polled /\ runLock # 0 /\ running # 0
                  /\ event' \in {M_BUTTON_RUN, M_BUTTON_INC, M_BUTTON_DEC})
             => running' # 0]_vars


---------------------------------------------------------------------------
(* MIDI thru: bytes of both classes arrive while timer 1 raises ticks and  *)
(* the user may start the transport; the options byte is any combination   *)
(* of the two pass options.                                                *)

MaxRxThru == 5
MaxThruTicks == 2
MaxThruChanges == 1
ThruStreams == {<<246, 1>>, <<250, 3>>}
ThruEeproms ==
    {eepromImage(255, 255)} \cup
    {eepromImage(EEPROM_MAGIC_COOKIE, o) :
        o \in {0, OPTION_PASSREALTIMEMSG,
               OPTION_PASSREALTIMEMSG + OPTION_PASSOTHERMSG + OPTION_STARTSTOP}}

InitThru == InitFrom(ThruEeproms, ThruStreams)
NextThru ==
    \/ InterruptRx(MaxRxThru, FALSE)
    \/ InterruptTimer1(MaxThruTicks)
    \/ Buttons({M_BUTTON_RUN}, MaxThruChanges)
    \/ MidiThruRead
    \/ MidiThruSend
    \/ MainMode
    \/ MainInput
SpecThru == InitThru /\ [][NextThru]_vars

\* midiThru takes a byte out of the queue / disposes of the byte it took
ThruTakes == pc = "thru" /\ pc' = "wrap"
ThruDisposes == pc = "wrap" /\ pc' = "thru"

\* C9: midiThru takes the bytes out of the queue in arrival order and, before
\* it takes the next one, sends the byte once if the option for its class is
\* set at that moment (0xF8..0xFF: pass-realtime; any other byte:
\* pass-other) and sends nothing otherwise; no step of midiThru changes the
\* tick phase, the tick flag or running.
C9_MidiThru ==
    [][/\ ThruTakes => q' = Head(rxPending) /\ tx' = <<>>
       /\ ThruDisposes
            => LET option == IF q >= REALTIME_MASK
                             THEN OPTION_PASSREALTIMEMSG
                             ELSE OPTION_PASSOTHERMSG
               IN  tx' = IF BitAnd(_options, option) # 0 THEN <<q>> ELSE <<>>
       /\ (pc \in {"thru", "wrap"} /\ pc' # pc)
            => UNCHANGED <<tickCount, tick_flag, running>>]_vars

\* a received 0xF8 has been forwarded while the transport is running, no
\* tick was raised and the phase has not moved
C9_Witness ==
    /\ pc = "thru"
    /\ q = MIDI_SYNCH_TICK
    /\ tx = <<MIDI_SYNCH_TICK>>
    /\ running = 1
    /\ nTicks = 0
    /\ tickCount = 0
    /\ tick_flag = 0

\* a byte of the other class has been dropped by the filter with a tick
\* pending
C9_WitnessSkipped ==
    /\ pc = "thru"
    /\ q = 247
    /\ tx = <<>>
    /\ rxCount = 2
    /\ rxPending = <<>>
    /\ _options = OPTION_PASSREALTIMEMSG
    /\ tick_flag = 1


---------------------------------------------------------------------------
(* Tap session: the user enters tap mode, taps, and leaves it by Inc or by *)
(* one of the chords, while timer 1 may raise a few ticks.                 *)

MaxSessionLeaves == 5
MaxSessionTicks == 2
MaxSessionMs == 100
SessionMasks ==
    {0, M_BUTTON_DEC, M_BUTTON_INC, M_BUTTON_RUN + M_BUTTON_DEC,
     M_BUTTON_RUN + M_BUTTON_INC, M_BUTTON_RUN + M_BUTTON_INC + M_BUTTON_DEC}

InitSession == InitFrom(BlankEeprom, {<<60, 1>>})
NextSession ==
    \/ ButtonsSettled(SessionMasks, MaxSessionLeaves)
    \/ InterruptTimer1(MaxSessionTicks)
    \/ Timer0Idle({}, MaxSessionMs)
    \/ MidiThruRead
    \/ MainMode
    \/ MainInput
SpecSession == InitSession /\ [][NextSession]_vars

\* C11: whenever the mode is not tap the tap count is 0; every poll that
\* takes the mode out of tap leaves the tap count at 0, and every poll that
\* takes the mode into tap finds and leaves it at 0, so that the next Dec
\* press there is a first tap.
C11_TapSession ==
    /\ [](_mode # MODE_TAP => tapCount = 0)
    /\ [][/\ (Polled /\ _mode = MODE_TAP /\ _mode' # MODE_TAP)
               => tapCount' = 0
          /\ (Polled /\ _mode # MODE_TAP /\ _mode' = MODE_TAP)
               => tapCount' = 0]_vars

\* tap mode has been left with Inc while a session was open
C11_LeftOpen ==
    /\ event = M_BUTTON_INC
    /\ _mode = MODE_STEP
    /\ tapCount = 1


---------------------------------------------------------------------------
(* Deferred restart: the user presses and holds Run (long press: run lock) *)
(* and presses it again, in step or tap mode, while timer 1 raises ticks.  *)

MaxRestartChanges == 7
MaxRestartMs == 601

InitRestart == InitFrom(BlankEeprom, {<<60, 1>>})
\* the first thing the user does may be to enter tap mode
RestartTap ==
    /\ nChanges = 0
    /\ ButtonsSettled({M_BUTTON_RUN + M_BUTTON_DEC}, MaxRestartChanges)
\* timer 1 rollover, lines 183-189, at any moment and without end (the
\* ticks are not counted)
RestartTick ==
    /\ Commit([Cur EXCEPT !.tick_flag = 1, !.tx = tx])
    /\ UNCHANGED <<envVars, rxPending>>
NextRestart ==
    \/ ButtonsSettled({0, M_BUTTON_RUN}, MaxRestartChanges)
    \/ RestartTap
    \/ RestartTick
    \/ Timer0Idle({}, MaxRestartMs)
    \/ MidiThruRead
    \/ MainMode
    \/ MainInput
SpecRestart == InitRestart /\ [][NextRestart]_vars

\* a Run press event in step or tap mode with run lock set (lines 667-672)
Requested ==
    /\ Emitted(M_BUTTON_RUN)
    /\ _mode \in {MODE_STEP, MODE_TAP}
    /\ runLock # 0
\* a consumed tick that takes the phase from 23 to 0 (line 498)
WrapTick == TickConsumed /\ tickCount = TICK_WRAP
\* the number of START bytes in a sequence of sent bytes
Starts(bytes) ==
    Cardinality({i \in 1..Len(bytes) : bytes[i] = MIDI_SYNCH_START})

\* The part of C12 that does not bound the wait: a Run press with run lock
\* set in step or tap mode sends nothing and sets the pending flag, and
\* nothing else sets it; the tick that wraps the phase with the flag set
\* sends START once, ahead of any tick byte of that pass, and clears the
\* flag; no other pass of the mode step sends START or changes the flag,
\* and nothing else clears it.
RestartDeferred ==
    [][/\ Requested
            => /\ tx' = <<>>
               /\ midiRestart' = 1
               /\ UNCHANGED <<running, runLock, tickCount, _mode>>
       /\ (midiRestart = 0 /\ midiRestart' # 0) => Requested
       /\ (WrapTick /\ midiRestart # 0)
            => /\ tx' = <<MIDI_SYNCH_START>> \o
                          (IF running # 0 THEN <<MIDI_SYNCH_TICK>> ELSE <<>>)
               /\ midiRestart' = 0
       /\ (ModeStep /\ ~(WrapTick /\ midiRestart # 0))
            => /\ Starts(tx') = 0
               /\ midiRestart' = midiRestart
       /\ (midiRestart # 0 /\ midiRestart' = 0) => WrapTick
       /\ (midiRestart # 0 /\ TickConsumed /\ tickCount < TICK_WRAP)
            => tickCount' = tickCount + 1]_vars

---------------------------------------------------------------------------
(* The clock as the main loop reads it: systemTicks is four bytes on this  *)
(* machine and nothing keeps the timer 0 interrupt out while the loop      *)
(* reads them, so a millisecond may pass between any two bytes.  The order *)
(* in which the bytes are read is the compiler's: lowest first or highest  *)
(* first.  The reads of one poll are taken as one read.                    *)

MaxClockChanges == 2
MaxClockMs == 3
\* the device has been powered for 255 or for 65535 ms
ClockUptimes == {N32(TwoTo8 - 1), N32(TwoTo16 - 1)}

\* byte i of an unsigned long (0: lowest)
ByteOf(a, i) ==
    CASE i = 0 -> a[2] % TwoTo8
      [] i = 1 -> a[2] \div TwoTo8
      [] i = 2 -> a[1] % TwoTo8
      [] i = 3 -> a[1] \div TwoTo8
\* the bytes of the read under way that are still to be read next
NextBytes ==
    LET n == Cardinality(DOMAIN clockRead.bytes)
    IN  IF n = 0 THEN {0, 3}
        ELSE IF n = 4 THEN {}
        ELSE IF 0 \in DOMAIN clockRead.bytes THEN {n} ELSE {3 - n}
\* the unsigned long made of the four bytes read
Snapshot ==
    <<clockRead.bytes[3] * TwoTo8 + clockRead.bytes[2],
      clockRead.bytes[1] * TwoTo8 + clockRead.bytes[0]>>
\* v is a value systemTicks held between the beginning of the read and now
Held(v) ==
    Ge32(Sub32(systemTicks, clockRead.from), Sub32(v, clockRead.from))

\* the loop reads one more byte of systemTicks (lines 588-629)
ClockReadByte ==
    /\ pc = "input"
    /\ \E i \in NextBytes :
        clockRead' =
            [from |-> IF DOMAIN clockRead.bytes = {}
                      THEN systemTicks ELSE clockRead.from,
             bytes |-> (i :> ByteOf(systemTicks, i)) @@ clockRead.bytes]
    /\ UNCHANGED <<progVars, port, pc, rxCount, rxStream, rxPending,
                   rxDropped, nChanges, nBoots, nTicks, elapsed, longPresses,
                   lastTransport>>

\* main, lines 588-806, with the value read for systemTicks
ClockPoll ==
    /\ pc = "input"
    /\ NextBytes = {}
    /\ \E u \in UndefinedQuotients :
        LET s == [Cur EXCEPT !.systemTicks = Snapshot]
        IN  Commit([userInput(s, port, u) EXCEPT !.systemTicks = systemTicks])
    /\ pc' = "thru"
    /\ clockRead' = NoRead
    /\ CountLongPress
    /\ TrackTransport
    /\ UNCHANGED <<port, rxCount, rxStream, rxPending, rxDropped, nChanges,
                   nBoots, nTicks, elapsed>>

InitClock == InitFrom(BlankEeprom, {<<60, 1>>})
NextClock ==
    \/ ButtonsSettled({0, M_BUTTON_DEC}, MaxClockChanges)
    \/ LongIdle(ClockUptimes)
    \/ InterruptTimer0(MaxClockMs)
    \/ MidiThruRead
    \/ MainMode
    \/ ClockReadByte
    \/ ClockPoll
SpecClock == InitClock /\ [][NextClock]_vars

\* C13: the value of the clock a poll of the buttons works with (compares
\* with the debounce deadline, stores a deadline from) is a value the
\* counter held at some moment of the read, whenever the interrupt came.
C13_WholeSnapshots ==
    [][Polled
         => /\ Held(Snapshot)
            /\ debouncePeriodEnd' # debouncePeriodEnd
                 => Held(Sub32(debouncePeriodEnd', N32(DEBOUNCE_PERIOD)))]_vars

\* a poll has worked with 511 when the counter went from 255 to 256
C13_Torn ==
    /\ pc = "thru"
    /\ systemTicks = N32(TwoTo8)
    /\ debouncePeriodEnd = N32(2 * TwoTo8 - 1 + DEBOUNCE_PERIOD)


---------------------------------------------------------------------------
(* Receive queue under preemption: a byte may arrive at any point of       *)
(* midiThru, also between the increment of rxTail (line 298) and its wrap  *)
(* (line 299), where rxTail may read SZ_RXBUFFER.                          *)

MaxRxPreempt == 40
MaxPreemptDrops == 1
PreemptStreams == {<<60, 1>>}

InitPreempt == InitFrom(BlankEeprom, PreemptStreams)
\* a byte arrives at any point; the interrupt refuses MaxPreemptDrops bytes
\* at most
PreemptRx ==
    /\ rxDropped < MaxPreemptDrops \/ rxPush(Cur, 0).rxHead # rxHead
    /\ InterruptRx(MaxRxPreempt, TRUE)
NextPreempt ==
    \/ PreemptRx
    \/ MidiThruRead
    \/ MidiThruSend
    \/ MainMode
    \/ MainInput
SpecPreempt == InitPreempt /\ [][NextPreempt]_vars

\* a byte arrives (the serial receive interrupt runs)
Arrives == rxCount' # rxCount
\* the slots holding bytes that were accepted and not read yet
Unread ==
    {(rxTail + k) % SZ_RXBUFFER : k \in 0..(Len(rxPending) - 1)}

\* C14: with bytes arriving at any point of the pop, the queue never holds
\* more than 19 bytes; a byte that finds fewer than 19 is accepted, into a
\* slot that holds no unread byte, and one that finds 19 is refused; every
\* pop returns the oldest accepted byte not popped yet, and midiThru finds
\* the queue empty only when every accepted byte has been popped.
C14_LockFree ==
    /\ [](Len(rxPending) <= SZ_RXBUFFER - 1)
    /\ [][/\ (Arrives /\ Len(rxPending) < SZ_RXBUFFER - 1)
               => /\ rxPending' =
                        Append(rxPending, streamByte(rxStream, rxCount))
                  /\ rxHead \notin Unread
                  /\ rxBuffer' = [rxBuffer EXCEPT ![rxHead] =
                                     streamByte(rxStream, rxCount)]
          /\ (Arrives /\ Len(rxPending) = SZ_RXBUFFER - 1)
               => UNCHANGED <<rxPending, rxHead, rxBuffer>>
          /\ ThruTakes => q' = Head(rxPending)
          /\ (pc = "thru" /\ pc' = "mode") => rxPending = <<>>]_vars

\* twenty bytes are in the buffer and the queue reads as empty
C14_Overfilled ==
    /\ Len(rxPending) = SZ_RXBUFFER
    /\ rxHead = rxTail
    /\ pc = "mode"


---------------------------------------------------------------------------
(* Wraparound of the millisecond counter (checked on the behaviours of     *)
(* the debounce section, where the first press may come 50 ms before the   *)
(* counter wraps).                                                         *)

\* the time since the moment t
Since(t) == Sub32(systemTicks, t)
\* the comparison a deadline of period d needs: the time since the deadline
\* was stored (as that moment plus d) is at least d / is more than d
Reached(deadline, d) == Ge32(Since(Sub32(deadline, N32(d))), N32(d))
Passed(deadline, d) == Gt32(Since(Sub32(deadline, N32(d))), N32(d))

\* C15: each comparison of the clock with a stored time has the outcome
\* that the elapsed time alone gives: the debounce deadline (line 588), the
\* start of auto-repeat (603) and the next auto-repeat (611), the fade
\* deadline (485), and the test that time has passed since the first tap
\* (753); the tap timeout (523) is a subtraction already.
C15_WrapTolerant ==
    /\ Registered
         => (debounceOpen(Cur) <=> Reached(debouncePeriodEnd, DEBOUNCE_PERIOD))
    /\ lastButtonStatus # 0
         => (Gt32(systemTicks, autoRepeatBegin)
               <=> Passed(autoRepeatBegin, AUTO_REPEAT_DELAY))
    /\ (lastButtonStatus # 0 /\ nextAutoRepeat # N32(0))
         => (Gt32(systemTicks, nextAutoRepeat)
               <=> Passed(nextAutoRepeat, AUTO_REPEAT_INTERVAL))
    /\ (_mode = MODE_NOCLOCK /\ nextFade # N32(0))
         => (Gt32(systemTicks, nextFade) <=> Passed(nextFade, FADE_PERIOD))
    /\ tapCount # 0
         => (Gt32(systemTicks, firstTapSystemTicks)
               <=> Since(firstTapSystemTicks) # N32(0))


---------------------------------------------------------------------------
(* The reload value of the tempo timer (checked on the behaviours of the   *)
(* tempo section).                                                         *)

\* n / d rounded to the nearest integer
Rounded(n, d) == (2 * n + d) \div (2 * d)
\* timer counts per MIDI tick at tempo b: 60 * counts per second / 24 / b
CountsPerTick(b) == Rounded((60 * TIMER_COUNTS_PER_SECOND) \div 24, b)

\* C16: for every tempo in [30, 300] the reload value setBPM derives is
\* 65536 minus the timer counts per MIDI tick rounded to the nearest
\* integer, and is below 65536; the reload value in use is the one derived
\* for the tempo in use.
C16_ReloadValue ==
    /\ \A b \in BPM_MIN..BPM_MAX :
          /\ ReloadFor(b) = UINT_MAX + 1 - CountsPerTick(b)
          /\ ReloadFor(b) \in 0..UINT_MAX
    /\ timer_init_scalar = ReloadFor(_bpm)


---------------------------------------------------------------------------
(* Menu editing: the user opens the menu and walks the cursor through it   *)
(* with Inc, pressing Dec here and there.                                  *)

MaxMenuChanges == 14
MaxMenuMs == 100

InitMenu == InitFrom(BlankEeprom, {<<60, 1>>})
\* the first thing the user does is to open the menu
MenuEntry ==
    /\ nChanges = 0
    /\ ButtonsSettled({M_BUTTON_RUN + M_BUTTON_INC + M_BUTTON_DEC},
                      MaxMenuChanges)
MenuButtons ==
    /\ nChanges > 0
    /\ ButtonsSettled({0, M_BUTTON_DEC, M_BUTTON_INC}, MaxMenuChanges)
NextMenu ==
    \/ MenuEntry
    \/ MenuButtons
    \/ Timer0Idle({}, MaxMenuMs)
    \/ MidiThruRead
    \/ MainMode
    \/ MainInput
SpecMenu == InitMenu /\ [][NextMenu]_vars

\* a Dec / an Inc press event in menu mode
MenuDec == Emitted(M_BUTTON_DEC) /\ _mode = MODE_MENU
MenuInc == Emitted(M_BUTTON_INC) /\ _mode = MODE_MENU
\* the poll left the EEPROM holding the valid cookie and the options in use
Saved ==
    /\ eeprom'[EEPROM_ADDR_OPTIONS] = _options'
    /\ eeprom'[EEPROM_ADDR_MAGIC_COOKIE] = EEPROM_MAGIC_COOKIE
\* an Inc press in the menu moves the cursor on by one, round the menu, and
\* changes neither options nor tempo
CursorAdvances ==
    MenuInc => /\ menuOption' = (menuOption + 1) % MENU_SIZE
               /\ UNCHANGED <<_options, eeprom, _bpm, timer_init_scalar,
                              _mode, _brightness, maxDuty>>

\* C17 as claimed: at every cursor position 0..5 a Dec press in the menu
\* toggles the option bit at the cursor and no other, leaves mode and
\* cursor alone, and saves; an Inc press moves the cursor.
C17_Original ==
    [][/\ MenuDec
            => /\ menuOption \in 0..(MENU_SIZE - 1)
               /\ _options' = BitXor(_options, 2 ^ menuOption)
               /\ UNCHANGED <<_mode, menuOption>>
               /\ Saved
       /\ CursorAdvances]_vars

\* C17, amended: at cursor positions 0..4 a Dec press in the menu toggles
\* the option bit at the cursor and no other and leaves the brightness
\* alone; at position 5, the last, it leaves every option bit alone and
\* moves the LED brightness on to the next of its six levels.  At every
\* position it leaves mode, cursor and tempo alone and saves the options.
\* An Inc press moves the cursor on by one, round the menu.
C17_MenuEditing ==
    /\ [](menuOption \in 0..(MENU_SIZE - 1))
    /\ [][/\ (MenuDec /\ menuOption < MENU_SIZE - 1)
               => /\ _options' = BitXor(_options, 2 ^ menuOption)
                  /\ UNCHANGED <<_brightness, maxDuty>>
          /\ (MenuDec /\ menuOption = MENU_SIZE - 1)
               => /\ _options' = _options
                  /\ _brightness' = (_brightness + 1) % NUM_BRIGHTNESS_LEVELS
                  /\ maxDuty' = brightnessLevels[_brightness' + 1]
          /\ MenuDec
               => /\ UNCHANGED <<_mode, menuOption, _bpm, timer_init_scalar>>
                  /\ Saved
          /\ CursorAdvances]_vars

\* Dec was pressed with the cursor on the last position, after the cursor
\* had passed an option that was toggled
C17_Witness ==
    /\ event = M_BUTTON_DEC
    /\ _mode = MODE_MENU
    /\ menuOption = MENU_SIZE - 1
    /\ _brightness = 1
    /\ _options # OPTIONS_DEFAULT
    /\ eeprom[EEPROM_ADDR_OPTIONS] = _options

\* the cursor has gone round the menu
C17_WitnessRound ==
    /\ event = M_BUTTON_INC
    /\ _mode = MODE_MENU
    /\ menuOption = 0
    /\ nChanges = 13


---------------------------------------------------------------------------
(* Tick gating: timer 1 raises ticks at any moment while the user starts   *)
(* and stops the transport and changes mode with the chords, and a tick    *)
(* byte may come in at the receiver.                                       *)

MaxGateChanges == 2
MaxGateMs == 100
MaxRxGate == 1
GateMasks ==
    {0, M_BUTTON_RUN, M_BUTTON_RUN + M_BUTTON_INC, M_BUTTON_RUN + M_BUTTON_DEC,
     M_BUTTON_RUN + M_BUTTON_INC + M_BUTTON_DEC}
\* the options saved: pass everything, send START and STOP
GateEeproms ==
    {eepromImage(EEPROM_MAGIC_COOKIE,
                 OPTION_PASSREALTIMEMSG + OPTION_PASSOTHERMSG
                    + OPTION_STARTSTOP)}

InitGate == InitFrom(GateEeproms, {<<MIDI_SYNCH_TICK, 0>>})
NextGate ==
    \/ ButtonsSettled(GateMasks, MaxGateChanges)
    \/ RestartTick
    \/ InterruptRx(MaxRxGate, FALSE)
    \/ Timer0Idle({}, MaxGateMs)
    \/ MidiThruRead
    \/ MidiThruSend
    \/ MainMode
    \/ MainInput
SpecGate == InitGate /\ [][NextGate]_vars

\* the number of tick bytes in a sequence of sent bytes
Ticks(bytes) ==
    Cardinality({i \in 1..Len(bytes) : bytes[i] = MIDI_SYNCH_TICK})

\* C18: a pass of the mode step sends one tick byte if it consumes a raised
\* tick (so the mode is step or tap) with running true, and no tick byte
\* otherwise; the button poll never sends a tick byte.  (What midiThru
\* sends is what was received.)
C18_TickGating ==
    [][/\ ModeStep
            => Ticks(tx') = IF TickConsumed /\ running # 0 THEN 1 ELSE 0
       /\ (ModeStep /\ (_mode \in {MODE_NOCLOCK, MODE_MENU} \/ running = 0))
            => tx' = <<>>
       /\ Polled => Ticks(tx') = 0]_vars

\* a tick was consumed in tap mode with the transport running, and its tick
\* byte sent
C18_Witness ==
    /\ pc = "input"
    /\ _mode = MODE_TAP
    /\ running = 1
    /\ tick_flag = 0
    /\ tx = <<MIDI_SYNCH_TICK>>

\* the mode step has passed in no-clock mode with the transport running and
\* a tick raised, and sent nothing
C18_WitnessNoClock ==
    /\ pc = "input"
    /\ _mode = MODE_NOCLOCK
    /\ running = 1
    /\ tick_flag = 1
    /\ tx = <<>>

---------------------------------------------------------------------------
(* Tap mode entry: the Run+Dec chord, pressed in each of the four modes    *)
(* (behaviours of SpecMode).                                               *)

\* the modes the mode table lets the Run+Dec chord act in
TapEntryModes == {MODE_STEP, MODE_TAP}

\* C19: an event with mask Run+Dec sets the mode to tap if the mode is step
\* or tap, and leaves the mode as it is in no-clock and menu mode.
C19_TapEntry ==
    [][Emitted(M_BUTTON_RUN + M_BUTTON_DEC)
          => _mode' = IF _mode \in TapEntryModes THEN MODE_TAP ELSE _mode]_vars

\* the part that holds: the chord enters tap mode, from step and tap mode
\* and from every other mode
C19_AlwaysTap ==
    [][Emitted(M_BUTTON_RUN + M_BUTTON_DEC) => _mode' = MODE_TAP]_vars

---------------------------------------------------------------------------
(* Holding Run: the user presses Run alone, from no button down, in any    *)
(* mode, and keeps it down through the long press and several auto-        *)
(* repeats; the device may have been powered for 2^32 - 581 ms before.     *)

MaxHoldChanges == 3
MaxHoldMs == 750
HoldMasks == {0, M_BUTTON_RUN, M_BUTTON_RUN + M_BUTTON_INC}
\* 2^32 - 581: a press made now turns long at 2^32 - 80
HoldUptimes ==
    {<<TwoTo16 - 1,
       TwoTo16 - (AUTO_REPEAT_DELAY + 1 + AUTO_REPEAT_INTERVAL)>>}

\* the buttons change; Run comes to be the only button down by a press,
\* not by the release of a chord
HoldButtons ==
    /\ ButtonsSettled(HoldMasks, MaxHoldChanges)
    /\ port' = M_BUTTON_RUN => port = 0

InitHold == InitFrom(BlankEeprom, {<<60, 1>>})
NextHoldNoRollover ==
    \/ HoldButtons
    \/ Timer0Idle({}, MaxHoldMs)
    \/ MidiThruRead
    \/ MainMode
    \/ MainInput
NextHold ==
    \/ NextHoldNoRollover
    \/ LongIdle(HoldUptimes)
SpecHoldNoRollover == InitHold /\ [][NextHoldNoRollover]_vars
SpecHold == InitHold /\ [][NextHold]_vars

\* the debouncer has Run as the only button down
RunHeld == lastButtonStatus = M_BUTTON_RUN

\* C20: while Run alone is held, a Run long-press event is the first
\* long-press event since the press, comes more than AUTO_REPEAT_DELAY ms
\* after the button went down and toggles runLock; a poll made later than
\* the delay and a debounce period after the button went down finds exactly
\* one long-press event emitted; a Run auto-repeat event comes after the
\* long press and changes neither runLock nor running nor the mode; and
\* runLock changes in no other step of the hold.
C20_OneLongPress ==
    [][/\ Emitted(M_BUTTON_RUN + M_LONG_PRESS)
            => /\ longPresses = 0
               /\ elapsed > AUTO_REPEAT_DELAY
               /\ runLock' = 1 - runLock
       /\ (Polled /\ RunHeld' /\ port = M_BUTTON_RUN
                  /\ elapsed > AUTO_REPEAT_DELAY + DEBOUNCE_PERIOD)
            => longPresses' = 1
       /\ Emitted(M_BUTTON_RUN + M_AUTO_REPEAT)
            => /\ longPresses = 1
               /\ UNCHANGED <<runLock, running, _mode>>
       /\ (RunHeld /\ RunHeld' /\ runLock' # runLock)
            => Emitted(M_BUTTON_RUN + M_LONG_PRESS)]_vars

\* Run has been down for long enough for three auto-repeat events, the run
\* lock was set by the long press, and an auto-repeat event was just emitted
C20_AutoRepeated ==
    /\ event = M_BUTTON_RUN + M_AUTO_REPEAT
    /\ RunHeld
    /\ longPresses = 1
    /\ runLock = 1
    /\ elapsed > AUTO_REPEAT_DELAY + 3 * AUTO_REPEAT_INTERVAL
    /\ pc = "thru"

\* a second hold took the run lock off again
C20_Unlocked ==
    /\ event = M_BUTTON_RUN + M_LONG_PRESS
    /\ nChanges = 3
    /\ runLock = 0
    /\ longPresses = 1
    /\ pc = "thru"

\* Run is held and a second long-press event was emitted since the press
C20_TwiceLong ==
    /\ RunHeld
    /\ longPresses = 2
    /\ event = M_BUTTON_RUN + M_LONG_PRESS

---------------------------------------------------------------------------
(* Transport messages and the tempo clock: Run presses and long presses    *)
(* while the tempo ticks, the START/STOP option enabled as it is after     *)
(* power-up with a blank EEPROM (behaviours of SpecRestart).               *)

\* the transport messages that let a receiver follow the clock
Going == {MIDI_SYNCH_START, MIDI_SYNCH_CONTINUE}

\* C21: with the START/STOP option enabled, each tick byte that the mode
\* step sends has a START or CONTINUE as the last transport message sent
\* before it, in the same step or in an earlier one: none follows a STOP, or
\* comes before the first START, with no START or CONTINUE in between.
C21_TransportConsistent ==
    [][(ModeStep /\ BitAnd(_options, OPTION_STARTSTOP) # 0)
          => \A i \in 1..Len(tx') :
                tx'[i] = MIDI_SYNCH_TICK
                    => LastTransportIn(tx', i - 1, lastTransport) \in Going]_vars

\* a tick byte was sent with STOP as the last transport message: the Run
\* press that stopped the transport was held until its long press set the
\* run lock
C21_TickAfterStop ==
    /\ pc = "input"
    /\ tx = <<MIDI_SYNCH_TICK>>
    /\ lastTransport = MIDI_SYNCH_STOP
    /\ runLock = 1
    /\ running = 1
    /\ nChanges = 3

\* the part that holds, where no button is held long enough for a long
\* press (behaviours of SpecGate and SpecSession): each tick byte the mode
\* step sends follows a START or CONTINUE
C21_NoLongPress ==
    [][ModeStep
          => \A i \in 1..Len(tx') :
                tx'[i] = MIDI_SYNCH_TICK
                    => LastTransportIn(tx', i - 1, lastTransport) \in Going]_vars

=============================================================================
